---- MODULE Spec2Model ----
(***************************************************************************)
(* A model of the AI faucet's two session programs:                        *)
(*   "faucet": the multi-network session (src/unnamed/part_000) over the   *)
(*             network registry (networks.ts, kept in src/guide.txt);      *)
(*   "agent" : the single-network session with the timer-based status      *)
(*             poller (src/src/index.ts).                                  *)
(* Every `await` of a handler is a step boundary: the handler of one input *)
(* line is suspended there and the handlers of other lines may run.        *)
(* The language model, the chain's balances, transfers and receipts are    *)
(* the environment: their answers are drawn from small sets.               *)
(***************************************************************************)
EXTENDS Integers, Sequences, FiniteSets, TLC

\* ------------------------------------------------------------- bounds
\* Input lines typed during one session.
MaxLines == 2
\* NetworkRequests in one model response.
MaxReqs == 2
\* The signer's starting balance on every chain, in units of 0.01 native.
MaxBal == 1

Lines == 1..MaxLines

\* ----------------------------------------------------------- variables
VARIABLES
  program,    \* which session program runs: "faucet" or "agent"
  privateKey, \* process.env.WALLET_PRIVATE_KEY, as the module reads it
  process,    \* "loading" (module code runs), "listening" or "exited"
  registry,   \* the networks object of networks.ts as it is at run time
  input,      \* input[l]: the text of input line l, << >> before it arrives
  selected,   \* << >>, or the last call of getNetworksFromInput and its value
  pc,         \* pc[l]: where the handler of input line l is
  resp,       \* resp[l]: << >>, or the response getAIResponse returned for l
  idx,        \* idx[l]: the request the loop of makeMultipleTransactions is at
  results,    \* results[l]: the results array of makeMultipleTransactions
  balance,    \* balance[n]: the signer's balance on chain n
  transfers,  \* the transfers the chains accepted
  calls,      \* calls[l]: the chain-client calls the handler of l made, in order
  out,        \* out[l]: what the handler of l printed, in order
  timer,      \* timer[l]: the interval timer of l: "none", "set" or "cleared"
  inflight,   \* inflight[l]: timer callbacks of l awaiting their lookup
  polls       \* polls[l]: how often the timer of l has fired

\* --------------------------------------------------- networks.ts (registry)
\* The registry table as networks.ts builds it, in enumeration (insertion)
\* order; `registry` holds the object while the process runs.
networks ==
  << [name |-> "sepolia",          chain |-> "sepolia",
      faucet |-> [symbol |-> "ETH", amount |-> "0.01"]],
     [name |-> "abstract",         chain |-> "abstractTestnet",
      faucet |-> [symbol |-> "ETH", amount |-> "0.01"]],
     [name |-> "optimism-sepolia", chain |-> "optimismSepolia",
      faucet |-> [symbol |-> "ETH", amount |-> "0.01"]],
     [name |-> "polygon",          chain |-> "polygon",
      faucet |-> [symbol |-> "POL", amount |-> "0.1"]],
     [name |-> "shardeum-atomium", chain |-> "shardeumAtomium",
      faucet |-> [symbol |-> "SHM", amount |-> "100"]] >>

\* Object.keys(networks)
getAvailableNetworks == [i \in 1..Len(registry) |-> registry[i].name]

\* The own keys of the networks object.
RegisteredNames == {registry[i].name : i \in 1..Len(registry)}

\* Property names every plain JavaScript object inherits from Object.prototype:
\* networks[name] finds them although they are not keys of the table.
ObjectPrototypeKeys ==
  {"constructor", "toString", "valueOf", "hasOwnProperty", "__proto__"}

\* networks[name] misses every name that is not an own key of the table.
getNetworkOwnKeysOnly(name) ==
  IF name \in RegisteredNames
    THEN [kind |-> "config",
          config |-> registry[CHOOSE i \in 1..Len(registry) : registry[i].name = name]]
    ELSE [kind |-> "undefined"]

\* networks[name]: the NetworkConfig of an own key, the inherited member of a
\* prototype key (truthy, and no NetworkConfig), undefined otherwise.
getNetwork(name) ==
  IF name \in RegisteredNames
    THEN [kind |-> "config",
          config |-> registry[CHOOSE i \in 1..Len(registry) : registry[i].name = name]]
    ELSE IF name \in ObjectPrototypeKeys
      THEN [kind |-> "inherited"]
      ELSE [kind |-> "undefined"]

\* ------------------------------------------------------------ input text
\* A text is its sequence of characters.
\* The characters of a registry key.
Chars(name) ==
  CASE name = "sepolia" -> <<"s", "e", "p", "o", "l", "i", "a">>
    [] name = "abstract" -> <<"a", "b", "s", "t", "r", "a", "c", "t">>
    [] name = "optimism-sepolia" ->
         <<"o", "p", "t", "i", "m", "i", "s", "m", "-", "s", "e", "p", "o", "l", "i", "a">>
    [] name = "polygon" -> <<"p", "o", "l", "y", "g", "o", "n">>
    [] name = "shardeum-atomium" ->
         <<"s", "h", "a", "r", "d", "e", "u", "m", "-", "a", "t", "o", "m", "i", "u", "m">>

UpperCase ==
  <<"A", "B", "C", "D", "E", "F", "G", "H", "I", "J", "K", "L", "M", "N", "O", "P", "Q", "R", "S", "T", "U", "V", "W", "X", "Y", "Z">>
LowerCase ==
  <<"a", "b", "c", "d", "e", "f", "g", "h", "i", "j", "k", "l", "m", "n", "o", "p", "q", "r", "s", "t", "u", "v", "w", "x", "y", "z">>

\* String.prototype.toLowerCase on one character and on a text.
LowerChar(c) ==
  IF \E i \in 1..Len(UpperCase) : UpperCase[i] = c
    THEN LowerCase[CHOOSE i \in 1..Len(UpperCase) : UpperCase[i] = c]
    ELSE c

toLowerCase(text) == [i \in 1..Len(text) |-> LowerChar(text[i])]

\* String.prototype.includes: `part` occurs in `text` as a run of characters.
includes(text, part) ==
  \E i \in 0..(Len(text) - Len(part)) : SubSeq(text, i + 1, i + Len(part)) = part

\* The selector without the lower-casing of the input.
getNetworksFromInputCaseSensitive(text) ==
  LET availableNetworks == getAvailableNetworks IN
    IF includes(text, <<"b", "o", "t", "h">>) \/ includes(text, <<"a", "l", "l">>)
      THEN availableNetworks
      ELSE SelectSeq(availableNetworks,
                     LAMBDA network : includes(text, toLowerCase(Chars(network))))

\* getNetworksFromInput(input)
getNetworksFromInput(text) ==
  LET inputLower == toLowerCase(text)
      availableNetworks == getAvailableNetworks IN
    IF includes(inputLower, <<"b", "o", "t", "h">>) \/ includes(inputLower, <<"a", "l", "l">>)
      THEN availableNetworks
      ELSE SelectSeq(availableNetworks,
                     LAMBDA network : includes(inputLower, toLowerCase(Chars(network))))

\* The pieces the texts given to the selector are put together from: the
\* inclusive keywords, a letter that makes a longer word of one, registry
\* names whole, in capitals, cut short, misspelt and in halves, and a blank.
Pieces ==
  { <<"a", "l", "l">>,
    <<"A", "L", "L">>,
    <<"b", "o", "t", "h">>,
    <<"w">>,
    <<"s", "e", "p", "o", "l", "i", "a">>,
    <<"S", "E", "P", "O", "L", "I", "A">>,
    <<"s", "e", "p", "o", "l", "i">>,
    <<"a">>,
    <<"p", "o", "l", "y", "g", "o", "n">>,
    <<"p", "o", "l", "y", "g", "n">>,
    <<"a", "b", "s", "t", "r", "a", "c", "t">>,
    <<"o", "p", "t", "i", "m", "i", "s", "m", "-">>,
    <<"s", "h", "a", "r", "d", "e", "u", "m">>,
    <<"-", "a", "t", "o", "m", "i", "u", "m">>,
    <<" ">> }

\* Pieces in one text given to the selector.
MaxPieces == 2

RECURSIVE Concat(_)
Concat(pieces) ==
  IF pieces = << >> THEN << >> ELSE Head(pieces) \o Concat(Tail(pieces))

Texts == {Concat(ps) : ps \in UNION {[1..k -> Pieces] : k \in 0..MaxPieces}}

\* ------------------------------------------------------ the private key
\* The number of hex digits /^0x[a-fA-F0-9]{64}$/ asks for.
PrivateKeyHexDigits == 64

\* "0x" and n times the digit d.
KeyOf(n, d) == <<"0", "x">> \o [i \in 1..n |-> d]

\* What WALLET_PRIVATE_KEY may hold: a key, a key one digit short or long, a
\* key with a digit that is not hex, a key with the marker "0X", a key without
\* marker, and nothing (the variable is unset and reads as undefined).
PrivateKeys ==
  { KeyOf(PrivateKeyHexDigits, "a"),
    KeyOf(PrivateKeyHexDigits - 1, "a"),
    KeyOf(PrivateKeyHexDigits + 1, "a"),
    KeyOf(PrivateKeyHexDigits, "g"),
    <<"0", "X">> \o [i \in 1..PrivateKeyHexDigits |-> "A"],
    [i \in 1..PrivateKeyHexDigits |-> "1"],
    <<"u", "n", "d", "e", "f", "i", "n", "e", "d">> }

\* ------------------------------------------------------------ viem units
\* parseEther on the decimal strings of the model, in units of 0.01 native
\* (10^16 wei); -1 stands for the exception parseEther raises on a string
\* that is no decimal number.
parseEther(amount) ==
  CASE amount = "0.01" -> 1
    [] amount = "0.02" -> 2
    [] amount = "0.03" -> 3
    [] amount = "0.1"  -> 10
    [] amount = "100"  -> 10000
    [] OTHER -> -1

Digit(d) ==
  CASE d = 0 -> "0" [] d = 1 -> "1" [] d = 2 -> "2" [] d = 3 -> "3" [] d = 4 -> "4"
    [] d = 5 -> "5" [] d = 6 -> "6" [] d = 7 -> "7" [] d = 8 -> "8" [] d = 9 -> "9"

\* formatEther of a balance below one native unit: trailing zeros are dropped.
formatEther(units) ==
  IF units = 0 THEN "0"
  ELSE IF units % 10 = 0 THEN "0." \o Digit((units \div 10) % 10)
  ELSE "0." \o Digit((units \div 10) % 10) \o Digit(units % 10)

\* ------------------------------------------------- the model's responses
\* A string is its sequence of characters.
GoodAddress ==
  <<
     "0", "x", "2", "d", "6", "D", "A", "9", "1", "5", "F", "0", "0", "d",
     "c", "A", "5", "0", "b", "0", "6", "a", "6", "0", "f", "c", "a", "0",
     "1", "0", "9", "4", "9", "3", "8", "2", "f", "4", "e", "0", "e", "8" >>

\* The same address behind the marker "0X".
UpperMarkerAddress == <<"0", "X">> \o SubSeq(GoodAddress, 3, Len(GoodAddress))

\* The spec's "0xZZZZ...": the right length, no hex digits.
NonHexAddress ==
  <<
     "0", "x", "Z", "Z", "Z", "Z", "Z", "Z", "Z", "Z", "Z", "Z", "Z", "Z",
     "Z", "Z", "Z", "Z", "Z", "Z", "Z", "Z", "Z", "Z", "Z", "Z", "Z", "Z",
     "Z", "Z", "Z", "Z", "Z", "Z", "Z", "Z", "Z", "Z", "Z", "Z", "Z", "Z" >>

\* The lines typed in a session: the spec's request for one network, a
\* request in capitals, and a line that asks for nothing.
SendOnSepolia ==
  <<"s", "e", "n", "d", " ", "t", "e", "s", "t", " ", "t", "o", "k", "e", "n", "s", " ", "t", "o", " ">>
  \o GoodAddress \o <<" ", "o", "n", " ", "s", "e", "p", "o", "l", "i", "a">>

SendInCapitals == <<"S", "E", "N", "D", " ", "0", ".", "0", "1", " ", "E", "T", "H", " ", "T", "O", " ">> \o GoodAddress

Hello == <<"h", "e", "l", "l", "o">>

FaucetLines == {SendOnSepolia}

AgentLines == {SendOnSepolia, SendInCapitals, Hello}

HexDigits ==
  {"0", "1", "2", "3", "4", "5", "6", "7", "8", "9",
   "a", "b", "c", "d", "e", "f", "A", "B", "C", "D", "E", "F"}

\* The number of hex digits /^0x[a-fA-F0-9]{40}$/i asks for.
AddressHexDigits == 40

\* /^0x[a-fA-F0-9]{40}$/i.test(to): the i flag also lets the marker be "0X".
AddressPatternTest(to) ==
  /\ Len(to) = AddressHexDigits + 2
  /\ to[1] = "0"
  /\ to[2] \in {"x", "X"}
  /\ \A i \in 3..Len(to) : to[i] \in HexDigits

\* A test that looks at the marker alone.
PrivateKeyPatternTestMarkerOnly(key) ==
  Len(key) >= 2 /\ key[1] = "0" /\ key[2] = "x"

\* /^0x[a-fA-F0-9]{64}$/.test(privateKey): no i flag, the marker is "0x".
PrivateKeyPatternTest(key) ==
  /\ Len(key) = PrivateKeyHexDigits + 2
  /\ key[1] = "0"
  /\ key[2] = "x"
  /\ \A i \in 3..Len(key) : key[i] \in HexDigits

NetworkRequest(name, amount) == [name |-> name, amount |-> amount, symbol |-> "ETH"]

\* The NetworkRequests a response may carry: registered names with an amount
\* the signer may or may not afford, or with an amount that is no decimal
\* number, a name that is no key of the registry, and a name the registry
\* object inherits.
NetworkRequests ==
  { NetworkRequest("sepolia", "0.01"), NetworkRequest("sepolia", "0.02"),
    NetworkRequest("polygon", "0.01"), NetworkRequest("foo", "0.01"),
    NetworkRequest("constructor", "0.01"), NetworkRequest("sepolia", "a lot") }

NetLists == UNION {[1..k -> NetworkRequests] : k \in 0..MaxReqs}

OneSepolia == << NetworkRequest("sepolia", "0.01") >>

ErrorText == "I'm not sure what you're asking."

\* The payload JSON.parse yields: `fields` are the properties it carries; a
\* property it does not carry reads as undefined (its slot here is unused).
WellFormed(nets) ==
  [json |-> TRUE, fields |-> {"to", "networks", "explanation"}, error |-> "",
   to |-> GoodAddress, networks |-> nets, explanation |-> "Sending test tokens",
   warnings |-> << >>]

WithError(r, e) == [r EXCEPT !.fields = @ \cup {"error"}, !.error = e]

Without(r, f) == [r EXCEPT !.fields = @ \ {f}]

NotJson == [WellFormed(<< >>) EXCEPT !.json = FALSE, !.fields = {}]

\* What getAIResponse may return in the faucet session.
Responses ==
     {WellFormed(n) : n \in NetLists}
  \cup {WithError(WellFormed(OneSepolia), e) : e \in {"", ErrorText}}
  \cup {WithError(Without(Without(Without(WellFormed(<< >>), "to"), "networks"),
                          "explanation"), e) : e \in {"", ErrorText}}
  \cup {Without(WellFormed(OneSepolia), f) : f \in {"to", "networks", "explanation"}}
  \cup {[WellFormed(OneSepolia) EXCEPT !.to = NonHexAddress],
        [WellFormed(OneSepolia) EXCEPT !.to = UpperMarkerAddress],
        [WellFormed(OneSepolia) EXCEPT !.to = << >>],
        [WellFormed(OneSepolia) EXCEPT !.explanation = ""],
        [WellFormed(OneSepolia) EXCEPT !.fields = @ \cup {"warnings"},
                                       !.warnings = <<"Note: Corrected 'ti' to 'to'">>],
        NotJson}

\* JavaScript truthiness of a property read: undefined and "" are falsy, an
\* array (even an empty one) is truthy.
Truthy(r, f) ==
  /\ f \in r.fields
  /\ CASE f = "error" -> r.error # ""
       [] f = "to" -> r.to # << >>
       [] f = "explanation" -> r.explanation # ""
       [] OTHER -> TRUE

UnderstandingFailure == "AI could not understand the request"
MalformedResponse ==
  "Failed to parse AI response. Please try again with a simpler request."

Threw(message, printed) == [ok |-> FALSE, message |-> message, printed |-> printed]

\* The parser with the required-field check ahead of the error check.
parseAIResponseFieldsFirst(response) ==
  IF ~response.json
    THEN Threw(MalformedResponse, << <<"Parse Error:", "SyntaxError">> >>)
  ELSE IF ~Truthy(response, "to") \/ ~Truthy(response, "networks")
          \/ ~Truthy(response, "explanation")
    THEN Threw(MalformedResponse,
               << <<"Parse Error:", "Missing required fields in response">> >>)
  ELSE IF Truthy(response, "error")
    THEN Threw(UnderstandingFailure, << <<"(x)", response.error>> >>)
  ELSE IF ~AddressPatternTest(response.to)
    THEN Threw(MalformedResponse,
               << <<"Parse Error:", "Invalid Ethereum address format">> >>)
  ELSE [ok |-> TRUE, parsed |-> response, printed |-> << >>]

\* parseAIResponse of the faucet session: the payload itself, or the Error it
\* throws with what it printed before throwing.
parseAIResponse(response) ==
  IF ~response.json
    THEN Threw(MalformedResponse, << <<"Parse Error:", "SyntaxError">> >>)
  ELSE IF Truthy(response, "error")
    THEN Threw(UnderstandingFailure, << <<"(x)", response.error>> >>)
  ELSE IF ~Truthy(response, "to") \/ ~Truthy(response, "networks")
          \/ ~Truthy(response, "explanation")
    THEN Threw(MalformedResponse,
               << <<"Parse Error:", "Missing required fields in response">> >>)
  ELSE IF ~AddressPatternTest(response.to)
    THEN Threw(MalformedResponse,
               << <<"Parse Error:", "Invalid Ethereum address format">> >>)
  ELSE [ok |-> TRUE, parsed |-> response, printed |-> << >>]

\* ------------------------------------- the agent's responses (index.ts)
\* A response of the agent session: text that JSON.parse accepts ("json"),
\* with properties that are all strings or not, or plain text ("lines") whose
\* to:, amount: and explanation: lines the fallback patterns read, or text
\* that is neither ("other").
AgentResponse(form, strings, to, amount) ==
  [form |-> form, strings |-> strings, to |-> to, amount |-> amount,
   explanation |-> "Sending test tokens"]

AgentResponses ==
  { AgentResponse("json", TRUE, GoodAddress, "0.01"),
    AgentResponse("json", TRUE, GoodAddress, "0.02"),
    AgentResponse("json", TRUE, GoodAddress, "0.01 ETH"),
    AgentResponse("json", TRUE, NonHexAddress, "0.01"),
    AgentResponse("json", TRUE, GoodAddress, "a lot"),
    AgentResponse("json", FALSE, GoodAddress, "0.01"),
    AgentResponse("lines", TRUE, GoodAddress, "0.01"),
    AgentResponse("lines", TRUE, NonHexAddress, "0.01"),
    AgentResponse("other", TRUE, << >>, "") }

\* amount.replace(/\s*ETH\s*$/i, '')
StripETH(amount) == IF amount = "0.01 ETH" THEN "0.01" ELSE amount

\* The longest prefix of s that /[0-9a-fA-Fx]+/ matches.
RECURSIVE HexPrefix(_)
HexPrefix(s) ==
  IF s = << >> \/ Head(s) \notin (HexDigits \cup {"x"})
    THEN << >>
    ELSE <<Head(s)>> \o HexPrefix(Tail(s))

\* parseAIResponse of the agent session: the JSON properties when all three
\* are strings; otherwise the fallback patterns are run on the response text,
\* in which a JSON text has no `to:` (its keys are quoted).
indexParseAIResponse(r) ==
  IF r.form = "json" /\ r.strings
    THEN [ok |-> TRUE, to |-> r.to, amount |-> StripETH(r.amount),
          explanation |-> r.explanation]
  ELSE IF r.form = "lines" /\ HexPrefix(r.to) # << >>
    THEN [ok |-> TRUE, to |-> HexPrefix(r.to), amount |-> r.amount,
          explanation |-> r.explanation]
  ELSE [ok |-> FALSE, message |-> "Failed to parse AI response"]

\* ------------------------------------------------------- the chain client
\* What publicClient.getTransactionReceipt may do: return a receipt whose
\* status is "success" or "reverted", throw viem's receipt-not-found Error
\* ("Transaction receipt with hash ... could not be found"), or throw any
\* other Error (a failed HTTP request).
ReceiptOutcomes == {"success", "reverted", "notfound", "rpcerror"}

IsReceipt(o) == o \in {"success", "reverted"}

\* error instanceof Error && error.message.includes('could not be found')
CouldNotBeFound(o) == o = "notfound"

\* The status lookup that takes every failed lookup for a pending transaction.
getTransactionStatusAllPending(o) ==
  IF IsReceipt(o)
    THEN (IF o = "success" THEN "Success" ELSE "Failed")
    ELSE "Pending"

\* getTransactionStatus once its receipt lookup has answered with `o`.
getTransactionStatus(o) ==
  IF IsReceipt(o)
    THEN (IF o = "success" THEN "Success" ELSE "Failed")
    ELSE IF CouldNotBeFound(o) THEN "Pending" ELSE "Unknown"

\* The timer callback's lookup with a test for success alone.
indexGetTransactionStatusSuccessOnly(o) ==
  IF o = "success" THEN "Success" ELSE "Pending"

\* getTransactionStatus of the agent session, for the lookup's answer `o`.
indexGetTransactionStatus(o) ==
  IF IsReceipt(o)
    THEN (IF o = "success" THEN "Success" ELSE "Failed")
    ELSE IF CouldNotBeFound(o) THEN "Pending" ELSE "Unknown"

\* The timer ticks after which the model stops following a poll.
MaxPolls == 2

\* The transaction id the chain returns for the transfer of request i of line l.
Hash(l, i) == "0xtx" \o ToString(l) \o ToString(i)

\* ----------------------------------------------------------------- state
vars == <<program, privateKey, process, registry, input, selected, pc, resp,
          idx, results, balance, transfers, calls, out, timer, inflight, polls>>

\* What no handler writes: the program, its key, the process and the registry.
fixedVars == <<program, privateKey, process, registry, selected>>

pollVars == <<timer, inflight, polls>>

\* The module has loaded and main has registered the input handler, and no
\* exception has escaped a handler (an unhandled rejection ends the process).
Running == process = "listening" /\ \A l \in Lines : pc[l] # "unhandled"

\* A chain-client call of request i as it is issued: it is pending until the
\* client settles it, returning `ret` or rejecting.
Call(op, i) == [op |-> op, req |-> i, state |-> "pending", ret |-> << >>]

Issue(cs, op, i) == Append(cs, Call(op, i))

\* The earliest pending `op` call of cs settles as `state` with `ret`.
Settle(cs, op, state, ret) ==
  LET k == CHOOSE j \in 1..Len(cs) :
             /\ cs[j].op = op /\ cs[j].state = "pending"
             /\ \A m \in 1..(j - 1) : ~(cs[m].op = op /\ cs[m].state = "pending")
  IN [cs EXCEPT ![k] = [@ EXCEPT !.state = state, !.ret = ret]]

Failure(name, message) == [network |-> name, result |-> [error |-> message]]

Success(name, hash, status) ==
  [network |-> name, result |-> [hash |-> hash, status |-> status]]

Requests(l) == resp[l][1].networks

Prompt == <<"Enter another request:">>

\* The process starts: nothing of the module has run yet.
Init ==
  /\ program \in {"faucet", "agent"}
  /\ privateKey \in PrivateKeys
  /\ process = "loading"
  /\ registry = networks
  /\ input = [l \in Lines |-> << >>]
  /\ selected = << >>
  /\ pc = [l \in Lines |-> "idle"]
  /\ resp = [l \in Lines |-> << >>]
  /\ idx = [l \in Lines |-> 0]
  /\ results = [l \in Lines |-> << >>]
  /\ \E b \in 0..MaxBal :
       balance = [n \in {networks[i].name : i \in 1..Len(networks)} |-> b]
  /\ transfers = {}
  /\ calls = [l \in Lines |-> << >>]
  /\ out = [l \in Lines |-> << >>]
  /\ timer = [l \in Lines |-> "none"]
  /\ inflight = [l \in Lines |-> 0]
  /\ polls = [l \in Lines |-> 0]

\* ------------------------------------------------------------- startup
\* The top-level code of either program: the key is tested and an Error is
\* thrown on a mismatch, which ends the process before main is called;
\* otherwise the clients are made and main registers the 'data' handler.
Startup ==
  /\ process = "loading"
  /\ process' = IF PrivateKeyPatternTest(privateKey) THEN "listening" ELSE "exited"
  /\ UNCHANGED <<program, privateKey, registry, input, selected, pc, resp, idx,
                 results, balance, transfers, calls, out, pollVars>>

\* ------------------------------------------- the faucet session (part_000)
\* process.stdin 'data': the handler of the next line starts and awaits
\* getAIResponse.  Nothing keeps it from starting while earlier handlers are
\* suspended.
OnData(l) ==
  /\ program = "faucet" /\ Running
  /\ pc[l] = "idle"
  /\ \A k \in Lines : k < l => pc[k] # "idle"
  /\ \E text \in FaucetLines : input' = [input EXCEPT ![l] = text]
  /\ pc' = [pc EXCEPT ![l] = "awaitAI"]
  /\ UNCHANGED <<fixedVars, resp, idx, results, balance, transfers, calls, out, pollVars>>

\* A handler that lets the exception escape.
mainCatchRethrows(l, message, printed) ==
  /\ pc' = [pc EXCEPT ![l] = "unhandled"]
  /\ out' = [out EXCEPT ![l] = @ \o printed]

\* main's catch block and the prompt after it: the message is printed unless
\* parseAIResponse already printed the model's own error.
mainCatch(l, message, printed) ==
  /\ pc' = [pc EXCEPT ![l] = "done"]
  /\ out' = [out EXCEPT ![l] =
       @ \o printed
         \o (IF message = UnderstandingFailure THEN << >>
             ELSE << <<"(x) Error:", message>> >>)
         \o <<Prompt>>]

WarningLines(r) ==
  IF "warnings" \in r.fields /\ Len(r.warnings) > 0
    THEN << <<"Warnings:">> >> \o [i \in 1..Len(r.warnings) |-> <<"- ", r.warnings[i]>>]
    ELSE << >>

\* getAIResponse settles: it rejects (the API call failed), or returns a
\* response that main parses; main then prints the warnings and explanation
\* and either returns (no networks) or enters makeMultipleTransactions.
OnAIResponse(l) ==
  /\ program = "faucet" /\ Running
  /\ pc[l] = "awaitAI"
  /\ \/ /\ mainCatch(l, "Connection error.", << >>)
        /\ UNCHANGED <<resp, idx>>
     \/ \E r \in Responses :
          /\ resp' = [resp EXCEPT ![l] = <<r>>]
          /\ LET p == parseAIResponse(r) IN
               IF ~p.ok
                 THEN mainCatch(l, p.message, p.printed) /\ UNCHANGED idx
               ELSE IF Len(r.networks) = 0
                 THEN /\ pc' = [pc EXCEPT ![l] = "done"]
                      /\ out' = [out EXCEPT ![l] =
                                   @ \o WarningLines(r) \o << <<r.explanation>> >>]
                      /\ UNCHANGED idx
                 ELSE /\ pc' = [pc EXCEPT ![l] = "loop"]
                      /\ out' = [out EXCEPT ![l] =
                                   @ \o WarningLines(r) \o << <<r.explanation>> >>]
                      /\ idx' = [idx EXCEPT ![l] = 1]
  /\ UNCHANGED <<fixedVars, input, results, balance, transfers, calls, pollVars>>

\* A catch that records nothing for the failed request.
RequestFailedUnrecorded(l, message) ==
  /\ idx' = [idx EXCEPT ![l] = @ + 1]
  /\ pc' = [pc EXCEPT ![l] = "loop"]
  /\ UNCHANGED results

\* A loop without its try/catch: the first failure ends the batch.
RequestFailedEndsBatch(l, message) ==
  /\ results' = [results EXCEPT ![l] =
                   Append(@, Failure(Requests(l)[idx[l]].name, message))]
  /\ idx' = [idx EXCEPT ![l] = Len(Requests(l)) + 1]
  /\ pc' = [pc EXCEPT ![l] = "loop"]

\* The catch of makeMultipleTransactions: the failure is pushed for the
\* request at hand and the loop goes on with the next one.
RequestFailed(l, message) ==
  /\ results' = [results EXCEPT ![l] =
                   Append(@, Failure(Requests(l)[idx[l]].name, message))]
  /\ idx' = [idx EXCEPT ![l] = @ + 1]
  /\ pc' = [pc EXCEPT ![l] = "loop"]

ResultLines(rs) ==
  [k \in 1..(2 * Len(rs)) |->
     LET r == rs[(k + 1) \div 2] IN
       IF "hash" \in DOMAIN r.result
         THEN (IF k % 2 = 1 THEN <<"Faucet sent on", r.network>>
                            ELSE <<"Transaction hash:", r.result.hash>>)
         ELSE (IF k % 2 = 1 THEN <<"Faucet failed on", r.network>>
                            ELSE <<"Error:">> \o r.result.error)]

\* A dispatcher that enters a name it does not find into the registry.
LoopIterationRegistersUnknown(l) ==
  /\ program = "faucet" /\ Running
  /\ pc[l] = "loop"
  /\ IF idx[l] > Len(Requests(l))
       THEN /\ pc' = [pc EXCEPT ![l] = "done"]
            /\ out' = [out EXCEPT ![l] = @ \o ResultLines(results[l]) \o <<Prompt>>]
            /\ UNCHANGED <<idx, results, calls, registry>>
       ELSE LET name == Requests(l)[idx[l]].name
                network == getNetwork(name) IN
              CASE network.kind = "undefined" ->
                     /\ registry' = Append(registry,
                          [name |-> name, chain |-> name,
                           faucet |-> [symbol |-> "ETH", amount |-> "0.01"]])
                     /\ RequestFailed(l, <<"Network ", name, " not configured">>)
                     /\ UNCHANGED <<calls, out>>
                [] network.kind = "inherited" ->
                     /\ RequestFailed(l, <<"network.walletClient is not a function">>)
                     /\ UNCHANGED <<calls, out, registry>>
                [] OTHER ->
                     /\ calls' = [calls EXCEPT ![l] = Issue(@, "getBalance", idx[l])]
                     /\ pc' = [pc EXCEPT ![l] = "awaitBalance"]
                     /\ UNCHANGED <<idx, results, out, registry>>
  /\ UNCHANGED <<program, privateKey, process, selected, input, resp, balance,
                 transfers, pollVars>>

\* The head of the for loop.  Past the last request the results are returned
\* to main, which prints them and the prompt.  Otherwise makeTransaction
\* starts: it throws when getNetwork finds nothing, throws a TypeError when
\* getNetwork finds an inherited member (which has no walletClient), and
\* otherwise asks the chain for the signer's balance.
LoopIteration(l) ==
  /\ program = "faucet" /\ Running
  /\ pc[l] = "loop"
  /\ IF idx[l] > Len(Requests(l))
       THEN /\ pc' = [pc EXCEPT ![l] = "done"]
            /\ out' = [out EXCEPT ![l] = @ \o ResultLines(results[l]) \o <<Prompt>>]
            /\ UNCHANGED <<idx, results, calls>>
       ELSE LET name == Requests(l)[idx[l]].name
                network == getNetwork(name) IN
              CASE network.kind = "undefined" ->
                     /\ RequestFailed(l, <<"Network ", name, " not configured">>)
                     /\ UNCHANGED <<calls, out>>
                [] network.kind = "inherited" ->
                     /\ RequestFailed(l, <<"network.walletClient is not a function">>)
                     /\ UNCHANGED <<calls, out>>
                [] OTHER ->
                     /\ calls' = [calls EXCEPT ![l] = Issue(@, "getBalance", idx[l])]
                     /\ pc' = [pc EXCEPT ![l] = "awaitBalance"]
                     /\ UNCHANGED <<idx, results, out>>
  /\ UNCHANGED <<fixedVars, input, resp, balance, transfers, pollVars>>

\* The faucet's message for a balance below the requested value.
DrainedMessage(name, bal, amount) ==
  <<"Faucet is currently drained for ", name,
    ". We will refill it soon. Current balance: ", formatEther(bal), " ",
    getNetwork(name).config.faucet.symbol>>

\* getBalance settles: it rejects, or returns the balance; makeTransaction
\* then throws on a value it cannot parse or cannot afford, and otherwise
\* submits the transfer.
OnBalance(l) ==
  /\ program = "faucet" /\ Running
  /\ pc[l] = "awaitBalance"
  /\ LET req == Requests(l)[idx[l]]
         value == parseEther(req.amount) IN
       \/ /\ RequestFailed(l, <<"HTTP request failed.">>)
          /\ calls' = [calls EXCEPT ![l] = Settle(@, "getBalance", "rejected", << >>)]
       \/ LET returned == Settle(calls[l], "getBalance", "returned", <<balance[req.name]>>) IN
            IF value < 0
              THEN /\ RequestFailed(l, <<"invalid decimal number">>)
                   /\ calls' = [calls EXCEPT ![l] = returned]
            ELSE IF balance[req.name] < value
              THEN /\ RequestFailed(l, DrainedMessage(req.name, balance[req.name], req.amount))
                   /\ calls' = [calls EXCEPT ![l] = returned]
              ELSE /\ calls' = [calls EXCEPT ![l] = Issue(returned, "sendTransaction", idx[l])]
                   /\ pc' = [pc EXCEPT ![l] = "awaitSend"]
                   /\ UNCHANGED <<idx, results>>
  /\ UNCHANGED <<fixedVars, input, resp, balance, transfers, out, pollVars>>

\* A dispatcher that submits the transfer again when the submission failed.
SendFailedRetries(l, message) ==
  /\ calls' = [calls EXCEPT ![l] =
       Issue(Settle(@, "sendTransaction", "rejected", << >>), "sendTransaction", idx[l])]
  /\ UNCHANGED <<pc, idx, results>>

\* sendTransaction rejected: the error goes to the catch of the loop.
SendFailed(l, message) ==
  /\ RequestFailed(l, message)
  /\ calls' = [calls EXCEPT ![l] = Settle(@, "sendTransaction", "rejected", << >>)]

\* A dispatcher that starts the status lookup without awaiting it: the result
\* is recorded and the loop goes on while the lookup is pending.
OnSentDoesNotAwaitStatus(l) ==
  /\ program = "faucet" /\ Running
  /\ pc[l] = "awaitSend"
  /\ LET req == Requests(l)[idx[l]]
         value == parseEther(req.amount) IN
       \/ /\ SendFailed(l, IF balance[req.name] < value
                             THEN <<"insufficient funds for transfer">>
                             ELSE <<"HTTP request failed.">>)
          /\ UNCHANGED <<balance, transfers>>
       \/ /\ balance[req.name] >= value
          /\ balance' = [balance EXCEPT ![req.name] = @ - value]
          /\ transfers' = transfers \cup
               {[hash |-> Hash(l, idx[l]), chain |-> getNetwork(req.name).config.chain,
                 to |-> resp[l][1].to, value |-> value]}
          /\ calls' = [calls EXCEPT ![l] =
               Issue(Settle(@, "sendTransaction", "returned", <<Hash(l, idx[l])>>),
                     "getTransactionReceipt", idx[l])]
          /\ results' = [results EXCEPT ![l] =
               Append(@, Success(req.name, Hash(l, idx[l]), "Pending"))]
          /\ idx' = [idx EXCEPT ![l] = @ + 1]
          /\ pc' = [pc EXCEPT ![l] = "loop"]
  /\ UNCHANGED <<fixedVars, input, resp, out, pollVars>>

\* sendTransaction settles.  The chain accepts a transfer the balance covers
\* and returns its id, and getTransactionStatus starts the receipt lookup
\* (its own getNetwork finds what makeTransaction found); the submission is
\* rejected when the transport fails or the balance no longer covers the value.
OnSent(l) ==
  /\ program = "faucet" /\ Running
  /\ pc[l] = "awaitSend"
  /\ LET req == Requests(l)[idx[l]]
         value == parseEther(req.amount) IN
       \/ /\ SendFailed(l, IF balance[req.name] < value
                             THEN <<"insufficient funds for transfer">>
                             ELSE <<"HTTP request failed.">>)
          /\ UNCHANGED <<balance, transfers>>
       \/ /\ balance[req.name] >= value
          /\ balance' = [balance EXCEPT ![req.name] = @ - value]
          /\ transfers' = transfers \cup
               {[hash |-> Hash(l, idx[l]), chain |-> getNetwork(req.name).config.chain,
                 to |-> resp[l][1].to, value |-> value]}
          /\ calls' = [calls EXCEPT ![l] =
               Issue(Settle(@, "sendTransaction", "returned", <<Hash(l, idx[l])>>),
                     "getTransactionReceipt", idx[l])]
          /\ pc' = [pc EXCEPT ![l] = "awaitReceipt"]
          /\ UNCHANGED <<idx, results>>
  /\ UNCHANGED <<fixedVars, input, resp, out, pollVars>>

\* The receipt lookup settles: the status is recorded with the transaction
\* id, whatever it is, and the loop goes on.
OnReceipt(l) ==
  /\ program = "faucet" /\ Running
  /\ pc[l] = "awaitReceipt"
  /\ \E o \in ReceiptOutcomes :
       /\ results' = [results EXCEPT ![l] =
            Append(@, Success(Requests(l)[idx[l]].name, Hash(l, idx[l]),
                              getTransactionStatus(o)))]
       /\ calls' = [calls EXCEPT ![l] =
            Settle(@, "getTransactionReceipt",
                   IF IsReceipt(o) THEN "returned" ELSE "rejected", <<o>>)]
  /\ idx' = [idx EXCEPT ![l] = @ + 1]
  /\ pc' = [pc EXCEPT ![l] = "loop"]
  /\ UNCHANGED <<fixedVars, input, resp, balance, transfers, out, pollVars>>

\* -------------------------------------------- the agent session (index.ts)
\* The agent's one chain.
AgentChain == "sepolia"

\* process.stdin 'data': a line without "send", in any case of letters, is
\* answered at once; for any other line the handler awaits getAIResponse.
indexOnData(l) ==
  /\ program = "agent" /\ Running
  /\ pc[l] = "idle"
  /\ \A k \in Lines : k < l => pc[k] # "idle"
  /\ \E userInput \in AgentLines :
       /\ input' = [input EXCEPT ![l] = userInput]
       /\ IF ~includes(toLowerCase(userInput), <<"s", "e", "n", "d">>)
            THEN /\ pc' = [pc EXCEPT ![l] = "done"]
                 /\ out' = [out EXCEPT ![l] = Append(@, <<"No transaction requested.">>)]
            ELSE /\ pc' = [pc EXCEPT ![l] = "awaitAI"]
                 /\ UNCHANGED out
  /\ UNCHANGED <<fixedVars, resp, idx, results, balance, transfers, calls, pollVars>>

\* A handler whose catch lets the exception escape.
indexCatchRethrows(l, message) ==
  /\ pc' = [pc EXCEPT ![l] = "unhandled"]
  /\ UNCHANGED out

\* The catch block of the agent's handler.
indexCatch(l, message) ==
  /\ pc' = [pc EXCEPT ![l] = "done"]
  /\ out' = [out EXCEPT ![l] = Append(@, <<"Error processing transaction:">> \o message)]

\* getAIResponse settles; a parsed response is printed and makeTransaction
\* asks for the balance.
indexOnAIResponse(l) ==
  /\ program = "agent" /\ Running
  /\ pc[l] = "awaitAI"
  /\ \/ /\ indexCatch(l, <<"Connection error.">>)
        /\ UNCHANGED <<resp, calls>>
     \/ \E r \in AgentResponses :
          /\ resp' = [resp EXCEPT ![l] = <<r>>]
          /\ LET p == indexParseAIResponse(r) IN
               IF ~p.ok
                 THEN indexCatch(l, <<p.message>>) /\ UNCHANGED calls
                 ELSE /\ pc' = [pc EXCEPT ![l] = "awaitBalance"]
                      /\ out' = [out EXCEPT ![l] =
                           @ \o << <<"AI Response:", p.explanation>>,
                                   <<"Sending", p.amount, "ETH to">> \o p.to >>]
                      /\ calls' = [calls EXCEPT ![l] = Issue(@, "getBalance", 1)]
  /\ UNCHANGED <<fixedVars, input, idx, results, balance, transfers, pollVars>>

\* The agent's message for a balance below the requested value.
InsufficientFundsMessage(bal, amount) ==
  <<"Insufficient funds. Balance: ", formatEther(bal), " ETH, Trying to send: ",
    amount, " ETH">>

\* getBalance settles in makeTransaction of the agent.
indexOnBalance(l) ==
  /\ program = "agent" /\ Running
  /\ pc[l] = "awaitBalance"
  /\ LET p == indexParseAIResponse(resp[l][1])
         value == parseEther(p.amount) IN
       \/ /\ indexCatch(l, <<"HTTP request failed.">>)
          /\ calls' = [calls EXCEPT ![l] = Settle(@, "getBalance", "rejected", << >>)]
       \/ LET returned == Settle(calls[l], "getBalance", "returned", <<balance[AgentChain]>>) IN
            IF value < 0
              THEN /\ indexCatch(l, <<"invalid decimal number">>)
                   /\ calls' = [calls EXCEPT ![l] = returned]
            ELSE IF balance[AgentChain] < value
              THEN /\ indexCatch(l, InsufficientFundsMessage(balance[AgentChain], p.amount))
                   /\ calls' = [calls EXCEPT ![l] = returned]
              ELSE /\ calls' = [calls EXCEPT ![l] = Issue(returned, "sendTransaction", 1)]
                   /\ pc' = [pc EXCEPT ![l] = "awaitSend"]
                   /\ UNCHANGED out
  /\ UNCHANGED <<fixedVars, input, resp, idx, results, balance, transfers, pollVars>>

\* sendTransaction settles in the agent: rejected, or accepted, printed, and
\* followed by the first status lookup.
indexOnSent(l) ==
  /\ program = "agent" /\ Running
  /\ pc[l] = "awaitSend"
  /\ LET p == indexParseAIResponse(resp[l][1])
         value == parseEther(p.amount) IN
       \/ /\ indexCatch(l, IF balance[AgentChain] < value
                             THEN <<"insufficient funds for transfer">>
                             ELSE <<"HTTP request failed.">>)
          /\ calls' = [calls EXCEPT ![l] = Settle(@, "sendTransaction", "rejected", << >>)]
          /\ UNCHANGED <<balance, transfers>>
       \/ /\ balance[AgentChain] >= value
          /\ balance' = [balance EXCEPT ![AgentChain] = @ - value]
          /\ transfers' = transfers \cup
               {[hash |-> Hash(l, 1), chain |-> AgentChain, to |-> p.to, value |-> value]}
          /\ calls' = [calls EXCEPT ![l] =
               Issue(Settle(@, "sendTransaction", "returned", <<Hash(l, 1)>>),
                     "getTransactionReceipt", 1)]
          /\ out' = [out EXCEPT ![l] = Append(@, <<"Transaction sent. Hash:", Hash(l, 1)>>)]
          /\ pc' = [pc EXCEPT ![l] = "awaitStatus"]
  /\ UNCHANGED <<fixedVars, input, resp, idx, results, pollVars>>

\* The first status lookup settles: the status is printed and the interval
\* timer is set, whatever the status is; the handler returns.
indexOnInitialStatus(l) ==
  /\ program = "agent" /\ Running
  /\ pc[l] = "awaitStatus"
  /\ \E o \in ReceiptOutcomes :
       /\ out' = [out EXCEPT ![l] =
            Append(@, <<"Initial transaction status:", indexGetTransactionStatus(o)>>)]
       /\ calls' = [calls EXCEPT ![l] =
            Settle(@, "getTransactionReceipt",
                   IF IsReceipt(o) THEN "returned" ELSE "rejected", <<o>>)]
  /\ timer' = [timer EXCEPT ![l] = "set"]
  /\ pc' = [pc EXCEPT ![l] = "polling"]
  /\ UNCHANGED <<fixedVars, input, resp, idx, results, balance, transfers, inflight, polls>>

\* The interval elapses: a callback starts its status lookup.  An earlier
\* callback may still await its own.
TimerFires(l) ==
  /\ program = "agent" /\ Running
  /\ timer[l] = "set"
  /\ polls[l] < MaxPolls
  /\ polls' = [polls EXCEPT ![l] = @ + 1]
  /\ inflight' = [inflight EXCEPT ![l] = @ + 1]
  /\ calls' = [calls EXCEPT ![l] = Issue(@, "getTransactionReceipt", 1)]
  /\ UNCHANGED <<fixedVars, input, pc, resp, idx, results, balance, transfers, out, timer>>

\* A callback that stops the timer on a mined transaction only.
PollCallbackStopsWhenMined(l, status) ==
  /\ out' = [out EXCEPT ![l] =
       @ \o << <<"Updated transaction status:", status>> >>
         \o (IF status \in {"Success", "Failed"}
               THEN << <<"Transaction completed. Enter another request:">> >>
               ELSE << >>)]
  /\ timer' = [timer EXCEPT ![l] =
       IF status \in {"Success", "Failed"} THEN "cleared" ELSE @]

\* The rest of a timer callback once its lookup gave `status`.
PollCallback(l, status) ==
  /\ out' = [out EXCEPT ![l] =
       @ \o << <<"Updated transaction status:", status>> >>
         \o (IF status # "Pending"
               THEN << <<"Transaction completed. Enter another request:">> >>
               ELSE << >>)]
  /\ timer' = [timer EXCEPT ![l] = IF status # "Pending" THEN "cleared" ELSE @]

\* The lookup of one callback in flight settles.
indexOnPolledStatus(l) ==
  /\ program = "agent" /\ Running
  /\ inflight[l] > 0
  /\ \E o \in ReceiptOutcomes :
       /\ PollCallback(l, indexGetTransactionStatus(o))
       /\ calls' = [calls EXCEPT ![l] =
            Settle(@, "getTransactionReceipt",
                   IF IsReceipt(o) THEN "returned" ELSE "rejected", <<o>>)]
  /\ inflight' = [inflight EXCEPT ![l] = @ - 1]
  /\ pc' = [pc EXCEPT ![l] =
       IF timer'[l] = "cleared" /\ inflight'[l] = 0 THEN "done" ELSE @]
  /\ UNCHANGED <<fixedVars, input, resp, idx, results, balance, transfers, polls>>

Next ==
  \/ Startup
  \/ \E l \in Lines :
       \/ OnData(l)
       \/ OnAIResponse(l)
       \/ LoopIteration(l)
       \/ OnBalance(l)
       \/ OnSent(l)
       \/ OnReceipt(l)
       \/ indexOnData(l)
       \/ indexOnAIResponse(l)
       \/ indexOnBalance(l)
       \/ indexOnSent(l)
       \/ indexOnInitialStatus(l)
       \/ TimerFires(l)
       \/ indexOnPolledStatus(l)

Spec == Init /\ [][Next]_vars

\* --------------------------------------------------- the selector by itself
\* A call of getNetworksFromInput on a text, as a caller of the function
\* would make it (main makes none): the text and the value are kept.
getNetworksFromInputCall(text) ==
  /\ selected = << >>
  /\ selected' = [input |-> text, networks |-> getNetworksFromInput(text)]
  /\ UNCHANGED <<program, privateKey, process, registry, input, pc, resp, idx,
                 results, balance, transfers, calls, out, pollVars>>

SelectNext == \E text \in Texts : getNetworksFromInputCall(text)

\* The selector applied to every text of Texts.
SelectSpec == Init /\ [][SelectNext]_vars

\* =============================================================== claims
Faucet == program = "faucet"
Agent == program = "agent"

\* Line l of the faucet session has a response the parser accepted.
Parsed(l) == Faucet /\ resp[l] # << >> /\ parseAIResponse(resp[l][1]).ok

IsFailure(r) == DOMAIN r.result = {"error"}
IsSuccess(r) == DOMAIN r.result = {"hash", "status"}

\* The positions in calls[l] of the `op` calls made for request i.
CallsOf(l, op, i) ==
  {k \in 1..Len(calls[l]) : calls[l][k].op = op /\ calls[l][k].req = i}

AllCallsOf(l, i) == {k \in 1..Len(calls[l]) : calls[l][k].req = i}

Contains(message, piece) == \E k \in 1..Len(message) : message[k] = piece

\* The balances getBalance returned for request i of line l.
ObservedBalances(l, i) ==
  {calls[l][k].ret[1] : k \in {j \in CallsOf(l, "getBalance", i) :
                                 calls[l][j].state = "returned"}}

\* C1: makeMultipleTransactions returns exactly one result per request, in
\* the order of the requests: while the loop runs the results are a prefix
\* that matches the requests name by name, once it has returned there are as
\* many results as requests, and each result is a success (hash and status)
\* or a failure (error message), never both.
C1_OneResultPerRequestInOrder ==
  \A l \in Lines : Parsed(l) =>
    /\ Len(results[l]) <= Len(Requests(l))
    /\ (pc[l] = "done" => Len(results[l]) = Len(Requests(l)))
    /\ \A i \in 1..Len(results[l]) :
         /\ results[l][i].network = Requests(l)[i].name
         /\ IsFailure(results[l][i]) # IsSuccess(results[l][i])

\* A batch of two has returned with a failure for the unregistered first
\* name and a success for the second.
C1_Witness ==
  \E l \in Lines :
    /\ Parsed(l) /\ pc[l] = "done" /\ Len(results[l]) = 2
    /\ Requests(l)[1].name = "foo"
    /\ IsFailure(results[l][1]) /\ IsSuccess(results[l][2])

\* C2: a request whose name is no key of the registry finds nothing in the
\* registry and fails with "Network <name> not configured" before any call to
\* the chain client is made for it.
C2_UnregisteredNameIsUnknownNetwork ==
  \A l \in Lines : Parsed(l) =>
    \A i \in 1..Len(results[l]) :
      LET name == Requests(l)[i].name IN
        name \notin RegisteredNames =>
          /\ getNetwork(name).kind = "undefined"
          /\ IsFailure(results[l][i])
          /\ results[l][i].result.error = <<"Network ", name, " not configured">>
          /\ AllCallsOf(l, i) = {}

\* C3: a failed request is confined to itself: the step that records the
\* failure of request i changes no balance and no transfer, leaves the
\* results recorded so far and every other line as they are, and puts the
\* loop at request i + 1; once the loop has returned every request has its
\* result.
C3_FailureConfinedToItsRequest ==
  /\ [](\A l \in Lines :
          (Parsed(l) /\ pc[l] = "done") => Len(results[l]) = Len(Requests(l)))
  /\ [][\A l \in Lines :
          ( /\ Faucet
            /\ Len(results'[l]) = Len(results[l]) + 1
            /\ IsFailure(results'[l][Len(results'[l])]) )
          => /\ balance' = balance
             /\ transfers' = transfers
             /\ SubSeq(results'[l], 1, Len(results[l])) = results[l]
             /\ results'[l][Len(results'[l])].network = Requests(l)[idx[l]].name
             /\ idx'[l] = idx[l] + 1
             /\ pc'[l] = "loop"
             /\ \A k \in Lines \ {l} :
                  /\ results'[k] = results[k] /\ idx'[k] = idx[k]
                  /\ pc'[k] = pc[k] /\ calls'[k] = calls[k]
       ]_vars

\* After the first request failed for want of funds the second one was
\* dispatched and succeeded.
C3_Witness ==
  \E l \in Lines :
    /\ Parsed(l) /\ Len(results[l]) = 2
    /\ IsFailure(results[l][1])
    /\ Head(results[l][1].result.error) = "Faucet is currently drained for "
    /\ IsSuccess(results[l][2])

\* C4: whenever getBalance returned less than the requested value, the
\* request fails and the failure message holds both the balance and the
\* requested amount in human units (faucet: the recorded error; agent: the
\* printed error).
C4_InsufficientFundsNamesBalanceAndAmount ==
  /\ \A l \in Lines : Parsed(l) =>
       \A i \in 1..Len(results[l]) :
         \A b \in ObservedBalances(l, i) :
           b < parseEther(Requests(l)[i].amount) =>
             /\ IsFailure(results[l][i])
             /\ Contains(results[l][i].result.error, formatEther(b))
             /\ Contains(results[l][i].result.error, Requests(l)[i].amount)
  /\ \A l \in Lines : (Agent /\ pc[l] = "done" /\ resp[l] # << >>) =>
       \A b \in ObservedBalances(l, 1) :
         LET amount == indexParseAIResponse(resp[l][1]).amount IN
           b < parseEther(amount) =>
             /\ Contains(out[l][Len(out[l])], formatEther(b))
             /\ Contains(out[l][Len(out[l])], amount)

\* C5: sendTransaction is called at most once per request: never for a name
\* the registry does not hold, never after getBalance returned less than the
\* requested value, and not again after a rejected submission, which is
\* recorded as the request's failure with no status lookup.
C5_AtMostOneSubmissionPerRequest ==
  \A l \in Lines : Parsed(l) =>
    \A i \in 1..Len(Requests(l)) :
      LET sends == CallsOf(l, "sendTransaction", i) IN
        /\ Cardinality(sends) <= 1
        /\ (Requests(l)[i].name \notin RegisteredNames => sends = {})
        /\ (\E b \in ObservedBalances(l, i) : b < parseEther(Requests(l)[i].amount))
             => sends = {}
        /\ \A k \in sends : calls[l][k].state = "rejected" =>
             /\ i <= Len(results[l]) /\ IsFailure(results[l][i])
             /\ CallsOf(l, "getTransactionReceipt", i) = {}
             /\ idx[l] > i

\* The submission of the first request was rejected and the loop has gone on
\* to give the second request its result.
C5_Witness ==
  \E l \in Lines :
    /\ Parsed(l) /\ Len(results[l]) = 2
    /\ \E k \in CallsOf(l, "sendTransaction", 1) : calls[l][k].state = "rejected"

\* C6: at most one input line is being processed at any time.
C6_AtMostOneLineProcessing ==
  Cardinality({l \in Lines : pc[l] \notin {"idle", "done"}}) <= 1

\* The statuses line l printed, in order: the first lookup's and the timer
\* callbacks'.
IsStatusLine(line) ==
  Head(line) \in {"Initial transaction status:", "Updated transaction status:"}

IsPolledLine(line) == Head(line) = "Updated transaction status:"

StatusLines(l) == SelectSeq(out[l], IsStatusLine)

IsSettledLookup(c) == c.op = "getTransactionReceipt" /\ c.state # "pending"

SettledLookups(l) == SelectSeq(calls[l], IsSettledLookup)

\* Some lookup of l, the first one included, gave a status other than Pending.
ObservedNonPending(l) ==
  \E k \in 1..Len(out[l]) : IsStatusLine(out[l][k]) /\ out[l][k][2] # "Pending"

\* Some timer callback of l got a status other than Pending.
PolledNonPending(l) ==
  \E k \in 1..Len(out[l]) : IsPolledLine(out[l][k]) /\ out[l][k][2] # "Pending"

\* C7, as stated: once a status other than Pending has been observed for a
\* submitted transfer, no further status lookup is started for it.
C7_NoLookupAfterNonPendingObserved ==
  [][\A l \in Lines :
       (Agent /\ ObservedNonPending(l)) => Len(calls'[l]) = Len(calls[l])]_vars

\* C7, amended: in the agent session the timer is set once the first status
\* lookup has answered, whatever its status; it stays set, and goes on firing,
\* exactly as long as every timer callback has seen Pending, and is cleared
\* exactly when a timer callback has seen Success, Failed or Unknown; no
\* lookup starts once it is cleared.
C7_PollingStopsOnPolledNonPending ==
  /\ [](\A l \in Lines : Agent =>
          /\ (timer[l] = "cleared") = PolledNonPending(l)
          /\ (timer[l] # "none") = (StatusLines(l) # << >>)
          /\ (timer[l] = "set" /\ polls[l] < MaxPolls) => ENABLED TimerFires(l))
  /\ [][\A l \in Lines :
          (Agent /\ timer[l] = "cleared") => Len(calls'[l]) = Len(calls[l])]_vars

\* A timer callback saw Pending and a later one ended the polling.
C7_Witness ==
  \E l \in Lines :
    /\ Agent /\ timer[l] = "cleared"
    /\ \E k \in 1..Len(out[l]) : IsPolledLine(out[l][k]) /\ out[l][k][2] = "Pending"

\* The status the claim gives each answer of the receipt lookup.
ExpectedStatus(o) ==
  CASE o = "success" -> "Success"
    [] o = "reverted" -> "Failed"
    [] o = "notfound" -> "Pending"
    [] OTHER -> "Unknown"

\* C8: every status lookup yields one of Success, Failed, Pending, Unknown:
\* Success for a receipt with status 'success', Failed for any other receipt,
\* Pending when the lookup failed with 'could not be found', Unknown for any
\* other failed lookup.  Faucet: the status recorded with a transaction id;
\* agent: the k-th status printed, for the k-th lookup settled.
C8_StatusClassifiesTheLookup ==
  /\ \A l \in Lines : Parsed(l) =>
       \A i \in 1..Len(results[l]) : IsSuccess(results[l][i]) =>
         /\ Cardinality(CallsOf(l, "getTransactionReceipt", i)) = 1
         /\ \A k \in CallsOf(l, "getTransactionReceipt", i) :
              /\ calls[l][k].state # "pending"
              /\ results[l][i].result.status = ExpectedStatus(calls[l][k].ret[1])
  /\ \A l \in Lines : Agent =>
       /\ Len(StatusLines(l)) = Len(SettledLookups(l))
       /\ \A k \in 1..Len(StatusLines(l)) :
            StatusLines(l)[k][2] = ExpectedStatus(SettledLookups(l)[k].ret[1])

\* One batch recorded a Pending and an Unknown status.
C8_Witness ==
  \E l \in Lines :
    /\ Parsed(l) /\ Len(results[l]) = 2
    /\ IsSuccess(results[l][1]) /\ results[l][1].result.status = "Pending"
    /\ IsSuccess(results[l][2]) /\ results[l][2].result.status = "Unknown"

\* A call of request i that the chain client rejected.
RejectedCalls(l, i) == {k \in AllCallsOf(l, i) : calls[l][k].state = "rejected"}

\* C9: no failure ends the session: no exception escapes a handler; a failed
\* model call or parse ends the line with a printed message and the prompt;
\* a rejected balance query or submission becomes the failure result of its
\* request and a failed status lookup a Pending or Unknown status; the agent
\* prints the error of a line it ends without a transfer; and the next line
\* can always be taken.
C9_NoFailureIsFatal ==
  \A l \in Lines :
    /\ pc[l] # "unhandled"
    /\ (Faucet /\ pc[l] = "done" /\ ~Parsed(l)) =>
         /\ \E k \in 1..Len(out[l]) : Head(out[l][k]) \in {"(x) Error:", "(x)"}
         /\ out[l][Len(out[l])] = Prompt
    /\ Parsed(l) =>
         \A i \in 1..Len(Requests(l)) : \A k \in RejectedCalls(l, i) :
           /\ i <= Len(results[l])
           /\ IF calls[l][k].op = "getTransactionReceipt"
                THEN /\ IsSuccess(results[l][i])
                     /\ results[l][i].result.status \in {"Pending", "Unknown"}
                ELSE IsFailure(results[l][i])
    /\ (Agent /\ pc[l] = "done" /\ CallsOf(l, "getTransactionReceipt", 1) = {}) =>
         Head(out[l][Len(out[l])]) \in
           {"Error processing transaction:", "No transaction requested."}
    /\ (l + 1 \in Lines /\ pc[l] # "idle" /\ pc[l + 1] = "idle") =>
         ENABLED (OnData(l + 1) \/ indexOnData(l + 1))

\* The model call of the first line failed, and the second line was taken
\* and processed to its results.
C9_Witness ==
  /\ Faucet /\ pc[1] = "done" /\ resp[1] = << >>
  /\ Parsed(2) /\ pc[2] = "done" /\ Len(results[2]) = 1

\* Line l of the faucet session got a JSON payload.
GotPayload(l) == Faucet /\ resp[l] # << >> /\ resp[l][1].json

\* C10, as stated: a payload that carries an error field, whatever its value,
\* is refused by the parser and no chain-client call is made for the line.
C10_AnyErrorFieldRefused ==
  \A l \in Lines : (GotPayload(l) /\ "error" \in resp[l][1].fields) =>
    /\ ~parseAIResponse(resp[l][1]).ok
    /\ calls[l] = << >> /\ results[l] = << >> /\ pc[l] = "done"

\* C10, amended: a payload whose error field is truthy (a non-empty message),
\* whatever other fields it carries, makes the parser throw 'AI could not
\* understand the request'; the line ends with the model's error and the
\* prompt printed, with no result and no chain-client call, and the next line
\* can be taken.
C10_TruthyErrorFieldRefused ==
  \A l \in Lines : (GotPayload(l) /\ Truthy(resp[l][1], "error")) =>
    /\ ~parseAIResponse(resp[l][1]).ok
    /\ parseAIResponse(resp[l][1]).message = UnderstandingFailure
    /\ calls[l] = << >> /\ results[l] = << >> /\ pc[l] = "done"
    /\ out[l] = << <<"(x)", resp[l][1].error>>, Prompt >>
    /\ (l + 1 \in Lines /\ pc[l + 1] = "idle") => ENABLED OnData(l + 1)

\* A payload with an error message beside a complete set of fields was refused.
C10_Witness ==
  \E l \in Lines :
    /\ GotPayload(l) /\ Truthy(resp[l][1], "error")
    /\ {"to", "networks", "explanation"} \subseteq resp[l][1].fields
    /\ pc[l] = "done"

\* '0x' followed by exactly 40 hex digits, letters compared without regard
\* to case.
MatchesRecipientPattern(to) ==
  /\ Len(to) = AddressHexDigits + 2
  /\ SubSeq(toLowerCase(to), 1, 2) = <<"0", "x">>
  /\ \A i \in 3..Len(to) : to[i] \in HexDigits

\* The payload's fields other than the recipient are well-formed.
OtherFieldsWellFormed(r) ==
  /\ "to" \in r.fields /\ ~Truthy(r, "error")
  /\ Truthy(r, "networks") /\ Truthy(r, "explanation")

\* The sendTransaction calls of line l.
Submissions(l) == {k \in 1..Len(calls[l]) : calls[l][k].op = "sendTransaction"}

\* C11: a response whose recipient is not '0x' followed by exactly 40 hex
\* digits is refused by the parser, with MalformedResponse when its other
\* fields are well-formed; so no transfer is submitted or accepted for such a
\* recipient, and the recipient the parser hands on and the recipient of the
\* transfer are the response's recipient, character by character.
C11_RecipientValidatedAndUnaltered ==
  /\ \A l \in Lines : (GotPayload(l) /\ ~MatchesRecipientPattern(resp[l][1].to)) =>
       /\ ~parseAIResponse(resp[l][1]).ok
       /\ OtherFieldsWellFormed(resp[l][1]) =>
            parseAIResponse(resp[l][1]).message = MalformedResponse
       /\ Submissions(l) = {}
  /\ \A l \in Lines : (Agent /\ resp[l] # << >>) =>
       LET p == indexParseAIResponse(resp[l][1]) IN
         /\ ~MatchesRecipientPattern(resp[l][1].to) => (~p.ok /\ Submissions(l) = {})
         /\ p.ok => p.to = resp[l][1].to
  /\ \A t \in transfers :
       /\ MatchesRecipientPattern(t.to)
       /\ \A l \in Lines : \A i \in 1..MaxReqs :
            (t.hash = Hash(l, i) /\ resp[l] # << >>) => t.to = resp[l][1].to

\* The networks of the results of line l, in the order of the results.
DispatchedNetworks(l) == [i \in 1..Len(results[l]) |-> results[l][i].network]

\* C12: the networks a line's results are for are exactly the networks its
\* raw text designates, in registry enumeration order: once a line with an
\* accepted response has been processed, its results name the networks the
\* selector derives from the text, one result each, and no others.
C12_ResultsAreTheDesignatedNetworks ==
  \A l \in Lines : (Parsed(l) /\ pc[l] = "done") =>
    DispatchedNetworks(l) = getNetworksFromInput(input[l])

\* Two texts of equal length that differ at most in the case of letters.
EqualIgnoringCase(a, b) ==
  Len(a) = Len(b) /\ \A i \in 1..Len(a) : LowerChar(a[i]) = LowerChar(b[i])

\* `part` occurs in `text` as a run of characters, case apart.
OccursIn(part, text) ==
  \E i \in 1..Len(text) :
    /\ i + Len(part) - 1 <= Len(text)
    /\ EqualIgnoringCase(SubSeq(text, i, i + Len(part) - 1), part)

HasInclusiveKeyword(text) ==
  OccursIn(<<"a", "l", "l">>, text) \/ OccursIn(<<"b", "o", "t", "h">>, text)

\* The place of a registered name in the registry's enumeration.
RegistryPosition(name) == CHOOSE i \in 1..Len(networks) : networks[i].name = name

\* C13: for every text, compared without regard to case, the selector
\* returns the whole registry enumeration, in registry order, when the text
\* holds 'all' or 'both' as a substring, whatever else it holds; otherwise it
\* returns exactly the registered names that occur in the text as literal
\* substrings, in registry order and each once.
C13_SelectorKeywordOrLiteralNames ==
  selected # << >> =>
    LET text == selected.input
        names == selected.networks IN
      IF HasInclusiveKeyword(text)
        THEN names = [i \in 1..Len(networks) |-> networks[i].name]
        ELSE /\ \A i \in 1..Len(networks) :
                  (\E k \in 1..Len(names) : names[k] = networks[i].name)
                    <=> OccursIn(Chars(networks[i].name), text)
             /\ \A k \in 1..Len(names) : \E i \in 1..Len(networks) :
                  names[k] = networks[i].name
             /\ \A j, k \in 1..Len(names) :
                  j < k => RegistryPosition(names[j]) < RegistryPosition(names[k])

\* The selector was given a text without keyword that names one network in
\* capitals and another misspelt, and returned the first alone.
C13_Witness ==
  /\ selected # << >>
  /\ ~HasInclusiveKeyword(selected.input)
  /\ OccursIn(<<"S", "E", "P", "O", "L", "I", "A">>, selected.input)
  /\ OccursIn(<<"p", "o", "l", "y", "g", "n">>, selected.input)
  /\ selected.networks = <<"sepolia">>

\* C14: the registry is closed at startup: in every state of a session,
\* whatever was selected, parsed, dispatched or looked up and whether it
\* failed or not, the networks object is the table networks.ts built (the
\* same names in the same order, each with its chain and faucet policy),
\* getAvailableNetworks returns those names in that order, and getNetwork
\* finds each name's own entry.
C14_RegistryClosedAtStartup ==
  /\ registry = networks
  /\ getAvailableNetworks =
       <<"sepolia", "abstract", "optimism-sepolia", "polygon", "shardeum-atomium">>
  /\ \A i \in 1..Len(networks) :
       getNetwork(networks[i].name) = [kind |-> "config", config |-> networks[i]]

\* A session in which a transfer was accepted and a request for a name the
\* registry does not hold has failed.
C14_Witness ==
  /\ transfers # {}
  /\ \E l \in Lines : \E i \in 1..Len(results[l]) :
       /\ Parsed(l) /\ IsFailure(results[l][i])
       /\ results[l][i].network = "foo"

\* '0x' followed by exactly 64 hex digits.
IsPrivateKey(key) ==
  /\ Len(key) = PrivateKeyHexDigits + 2
  /\ SubSeq(key, 1, 2) = <<"0", "x">>
  /\ \A i \in 3..Len(key) : key[i] \in HexDigits

\* C15: with a configured key that is not '0x' followed by exactly 64 hex
\* digits the process fails at startup, before the input handler is
\* registered: it is loading or has exited, no line is ever taken, and no
\* model call, balance query or transfer is issued.
C15_BadKeyFailsAtStartup ==
  ~IsPrivateKey(privateKey) =>
    /\ process \in {"loading", "exited"}
    /\ ENABLED Startup => process = "loading"
    /\ transfers = {}
    /\ \A l \in Lines :
         /\ ~ENABLED (OnData(l) \/ indexOnData(l))
         /\ pc[l] = "idle" /\ input[l] = << >> /\ resp[l] = << >>
         /\ calls[l] = << >> /\ out[l] = << >>

\* The process has exited on a key that is one digit short.
C15_Witness ==
  /\ process = "exited"
  /\ Len(privateKey) = PrivateKeyHexDigits + 1
  /\ SubSeq(privateKey, 1, 2) = <<"0", "x">>

\* The place of a chain-client operation in the dispatch of one request.
OpRank(op) ==
  CASE op = "getBalance" -> 1
    [] op = "sendTransaction" -> 2
    [] op = "getTransactionReceipt" -> 3

IsResultLine(line) == Head(line) \in {"Faucet sent on", "Faucet failed on"}

\* C16: within one line of the faucet session the network operations are
\* strictly sequential: a call is made only when every earlier call of the
\* line has settled; the calls of request i are, in this order and each at
\* most once, the balance query, the submission (after a balance query) and
\* the status lookup (after a submission); no call for request i + 1 is made
\* before the result of request i is recorded; and no result is printed
\* before the last request has its result.
C16_OperationsStrictlySequential ==
  \A l \in Lines : Parsed(l) =>
    LET cs == calls[l] IN
      /\ \A k \in 1..Len(cs) :
           /\ k < Len(cs) => cs[k].state # "pending"
           /\ cs[k].req \in 1..Len(Requests(l))
           /\ Len(results[l]) >= cs[k].req - 1
           /\ cs[k].state = "pending" => (idx[l] = cs[k].req /\ Len(results[l]) = idx[l] - 1)
           /\ OpRank(cs[k].op) > 1 =>
                /\ k > 1
                /\ cs[k - 1].req = cs[k].req
                /\ OpRank(cs[k - 1].op) = OpRank(cs[k].op) - 1
                /\ cs[k - 1].state = "returned"
      /\ \A j, k \in 1..Len(cs) : j < k =>
           /\ cs[j].req <= cs[k].req
           /\ cs[j].req = cs[k].req => OpRank(cs[j].op) < OpRank(cs[k].op)
      /\ \A k \in 1..Len(out[l]) : IsResultLine(out[l][k]) =>
           /\ pc[l] = "done"
           /\ Len(results[l]) = Len(Requests(l))

\* A batch of two has been processed with all three operations for each
\* request, and its results are printed.
C16_Witness ==
  \E l \in Lines :
    /\ Parsed(l) /\ pc[l] = "done"
    /\ Len(calls[l]) = 6
    /\ \E k \in 1..Len(out[l]) : IsResultLine(out[l][k])

\* C17: every transfer submitted on a registered network has the value of
\* that network's configured faucet amount, whatever amount the response
\* placed in the request.
C17_TransferValueIsFaucetAmount ==
  Faucet =>
    \A t \in transfers : \A i \in 1..Len(registry) :
      registry[i].chain = t.chain =>
        t.value = parseEther(registry[i].faucet.amount)

\* The network and the value of the transfer line l has under submission.
SubmissionNetwork(l) ==
  IF Faucet THEN Requests(l)[idx[l]].name ELSE AgentChain

SubmissionValue(l) ==
  IF Faucet THEN parseEther(Requests(l)[idx[l]].amount)
            ELSE parseEther(indexParseAIResponse(resp[l][1]).amount)

\* C18: while a transfer of value v on network N is under submission (the
\* handler has passed its balance check and awaits sendTransaction), the
\* signer's balance on N is at least v, whatever the handlers of other lines
\* do in between.
C18_BalanceCoversSubmission ==
  \A l \in Lines :
    pc[l] = "awaitSend" => balance[SubmissionNetwork(l)] >= SubmissionValue(l)

IsCompletionLine(line) == Head(line) = "Transaction completed. Enter another request:"

\* C19: in the timer-based poller the completion message is printed exactly
\* once for a submitted transaction and no status is printed after it: once
\* the timer is cleared the message is there, nothing that follows it in the
\* output is a second completion message or a status update, however many
\* timer callbacks were awaiting their lookup.
C19_CompletionPrintedOnce ==
  \A l \in Lines : Agent =>
    /\ timer[l] = "cleared" => \E j \in 1..Len(out[l]) : IsCompletionLine(out[l][j])
    /\ \A j, k \in 1..Len(out[l]) :
         (j < k /\ IsCompletionLine(out[l][j])) =>
           (~IsCompletionLine(out[l][k]) /\ ~IsStatusLine(out[l][k]))

====
